---- MODULE Spec2Model ----
(***************************************************************************)
(* The churn-prediction notebook (src/main.ipynb) as a state machine.      *)
(* One action per code cell that changes state; the cells run top to       *)
(* bottom, so pc names the next cell.  Library calls (numpy, pandas,       *)
(* scikit-learn, imbalanced-learn) are modelled by what they compute.      *)
(*                                                                         *)
(* Numbers.  A float is an exact rational <<num, den>> (den > 0, reduced); *)
(* NaN is <<0, 0>>.  After standardisation a value is s*sqrt(p/q), kept as *)
(* the triple <<s, p, q>> (s in {-1,0,1}, p/q reduced), which is closed    *)
(* under the one operation later applied to it (division).                 *)
(*                                                                         *)
(* Randomness.  Every random draw of the notebook comes from a seeded      *)
(* generator (np.random.seed(42), random_state=42), so a run is a          *)
(* function of the seed.  The generator is a linear congruential stream;   *)
(* the seed ranges over 0..MaxSeed (42 is one of them) so that the model   *)
(* covers many datasets.  The only scheduling freedom is the order in      *)
(* which the grid search's parallel workers finish (n_jobs=-1).            *)
(***************************************************************************)
EXTENDS Integers, Sequences, FiniteSets, TLC

\* ------------------------------------------------------------------ bounds
\* rows of the table (n_records is 5000 in the notebook)
n_records == 6
\* rows whose TotalCharges is set to NaN (size=50 in the notebook)
NMissing == 2
\* rows whose MonthlyCharges is inflated (size=10 in the notebook)
NOutliers == 2
\* seeds explored: 0..MaxSeed
MaxSeed == 47
\* Tenure is drawn from 1..MaxTenure (randint(1, 72) in the notebook)
MaxTenure == 3
\* SMOTE's k_neighbors (5 by default)
SmoteK == 1
\* candidates of the tree grid that are searched (432 in the notebook)
TreeGridSize == 2
\* candidates of the naive Bayes grid that are searched (5 in the notebook)
NbGridSize == 2
\* folds of the tree search (cv=10) and of the naive Bayes search (cv=5)
TreeCV == 2
NbCV == 2
\* worker processes of the grid search (n_jobs=-1: one per processor)
NWorkers == 2
\* seeds explored by the full-size split: 0..MaxSplitSeed
MaxSplitSeed == 79

\* n_records as the notebook sets it
FullRecords == 5000

\* ------------------------------------------------------- exact arithmetic
Abs(x) == IF x < 0 THEN -x ELSE x
Sgn(x) == IF x < 0 THEN -1 ELSE IF x = 0 THEN 0 ELSE 1
Max(a, b) == IF a >= b THEN a ELSE b
Min(a, b) == IF a <= b THEN a ELSE b

MaxTasks == Max(TreeGridSize * TreeCV, NbGridSize * NbCV)

RECURSIVE Gcd(_, _)
Gcd(a, b) == IF b = 0 THEN a ELSE Gcd(b, a % b)

Lcm(a, b) == (a \div Gcd(a, b)) * b

NaN == <<0, 0>>
IsNaN(x) == x[2] = 0

\* the reduced fraction n/d (d # 0)
Rat(n, d) ==
    LET g == Gcd(Abs(n), Abs(d))
        s == IF d < 0 THEN -1 ELSE 1
    IN  <<s * (n \div g), s * (d \div g)>>

IntVal(k) == <<k, 1>>

RatAdd(x, y) ==
    IF IsNaN(x) \/ IsNaN(y) THEN NaN
    ELSE LET l == Lcm(x[2], y[2])
         IN  Rat(x[1] * (l \div x[2]) + y[1] * (l \div y[2]), l)

RatMul(x, y) ==
    IF IsNaN(x) \/ IsNaN(y) THEN NaN
    ELSE LET g1 == Gcd(Abs(x[1]), y[2])
             g2 == Gcd(Abs(y[1]), x[2])
         IN  Rat((x[1] \div g1) * (y[1] \div g2), (x[2] \div g2) * (y[2] \div g1))

\* x / y for y # 0 (numpy yields NaN when x or y is NaN)
RatDiv(x, y) ==
    IF IsNaN(x) \/ IsNaN(y) THEN NaN
    ELSE RatMul(x, Rat(y[2], y[1]))

RECURSIVE SumSeq(_)
SumSeq(s) == IF s = <<>> THEN 0 ELSE Head(s) + SumSeq(Tail(s))

RECURSIVE GcdSeq(_)
GcdSeq(s) == IF s = <<>> THEN 0 ELSE Gcd(Abs(Head(s)), GcdSeq(Tail(s)))

RECURSIVE LcmSeq(_)
LcmSeq(s) == IF s = <<>> THEN 1 ELSE Lcm(Head(s), LcmSeq(Tail(s)))

\* ------------------------------------------------------- random generator
\* one step of the generator's state
NextRand(s) == (s * 75 + 74) % 32749

\* the affine map x |-> a*x + c (mod 32749) applied after the map m
AffAfter(a, c, m) == <<(a * m[1]) % 32749, (a * m[2] + c) % 32749>>

RECURSIVE StepPow(_)
\* k steps of the generator as one affine map (by repeated squaring)
StepPow(k) ==
    IF k = 0 THEN <<1, 0>>
    ELSE IF k % 2 = 1 THEN AffAfter(75, 74, StepPow(k - 1))
    ELSE LET h == StepPow(k \div 2) IN AffAfter(h[1], h[2], h)

\* the state after k draws
Stream(s, k) == (StepPow(k)[1] * s + StepPow(k)[2]) % 32749

\* size=n draws: the i-th value of the batch that starts at state s
Batch(s, n) == [i \in 1..n |-> Stream(s, i)]

\* a multiplier coprime to m: the first one from 1 + (r mod (m - 1)) upwards
Multiplier(m, r) ==
    IF m <= 2 THEN 1
    ELSE CHOOSE a \in (1 + (r % (m - 1)))..(m - 1) :
             /\ Gcd(a, m) = 1
             /\ \A z \in (1 + (r % (m - 1)))..(a - 1) : Gcd(z, m) # 1

\* rng.permutation(seq): two draws choose the permutation i -> a*i + b (mod m)
Permutation(seq, s) ==
    LET m == Len(seq)
        a == Multiplier(m, NextRand(s))
        b == NextRand(NextRand(s)) % Max(m, 1)
    IN  [i \in 1..m |-> seq[1 + ((a * (i - 1) + b) % m)]]

\* the generator's state after a permutation
AfterPermutation(s, m) == Stream(s, 2)

\* variant: k draws with replacement (np.random.choice with replace=True)
ChoiceWithReplace(index, k, s) == [j \in 1..k |-> index[1 + (Stream(s, j) % Len(index))]]

\* np.random.choice(index, size=k, replace=False): a prefix of a permutation
ChoiceNoReplace(index, k, s) == SubSeq(Permutation(index, s), 1, k)

Range(seq) == {seq[i] : i \in DOMAIN seq}

\* ------------------------------------------------------------------ state
VARIABLES
    pc,              \* the next cell to run
    seed,            \* the seed of this run (42 in the notebook)
    rng,             \* state of numpy's global generator
    data,            \* the in-memory table `data` (sequence of rows)
    disk,            \* data/customer_data.csv: [exists, rows]
    nWrites,         \* number of writes of the file so far
    nReads,          \* number of reads of the file so far
    imputer,         \* SimpleImputer: [fitted, statistics_, n]
    label_encoders,  \* column -> classes_ (sequence, code = position - 1)
    scaler,          \* StandardScaler: [fitted, mean_, n_samples_seen_]
    X,               \* data without CustomerID and Churn
    y,               \* data['Churn'] (encoded)
    X_train,         \* rows of the train partition, in partition order
    X_test,
    y_train,
    y_test,
    train_index,     \* the index labels (row numbers of data) of X_train / y_train
    test_index,
    tree,            \* the baseline decision tree (an estimator object)
    nb,              \* the baseline naive Bayes model
    best_tree,       \* grid_search.best_estimator_ of the tree search
    best_nb,         \* grid_search.best_estimator_ of the naive Bayes search
    y_pred_tree,
    y_pred_nb,
    y_pred_best_tree,
    y_pred_best_nb,
    X_resampled,     \* SMOTE output: the rows of X, then the synthetic rows
    y_resampled,
    X_train_smote,
    X_test_smote,
    y_train_smote,
    y_test_smote,
    grid_search,     \* the GridSearchCV object (rebound by the second search)
    printed,         \* the metric lines printed so far
    conf_matrix_logreg,
    importances,
    roc_auc          \* the area plot_roc computes

prepVars == <<seed, rng, data, disk, nWrites, nReads, imputer, label_encoders, scaler>>

splitVars == <<X, y, X_train, X_test, y_train, y_test, train_index, test_index>>

fitVars == <<tree, nb, best_tree, best_nb>>

predVars == <<y_pred_tree, y_pred_nb, y_pred_best_tree, y_pred_best_nb>>

smoteVars ==
    <<X_resampled, y_resampled, X_train_smote, X_test_smote, y_train_smote, y_test_smote>>

reportVars == <<printed, conf_matrix_logreg, importances, roc_auc>>

modelVars == <<fitVars, predVars, smoteVars, grid_search, reportVars>>

laterVars == <<splitVars, modelVars>>

vars == <<pc, prepVars, splitVars, modelVars>>

Rows == 1..n_records

CategoricalCols ==
    <<"Gender", "ContractType", "TechSupport", "InternetService",
      "PaperlessBilling", "PaymentMethod", "Churn">>

NumericCols ==
    <<"Age", "MonthlyCharges", "TotalCharges", "Tenure",
      "average_monthly_charges", "customer_lifetime_value">>

GeneratedCols ==
    <<"CustomerID", "Age", "Gender", "ContractType", "MonthlyCharges", "TotalCharges",
      "TechSupport", "InternetService", "Tenure", "PaperlessBilling", "PaymentMethod",
      "Churn">>

AllCols == GeneratedCols \o <<"average_monthly_charges", "customer_lifetime_value">>

\* ------------------------------------------------- cell 3: seed, n_records
SetSeed ==
    /\ pc = "seed"
    /\ rng' = seed
    /\ pc' = "generate"
    /\ UNCHANGED <<seed, data, disk, nWrites, nReads, imputer, label_encoders, scaler>>
    /\ UNCHANGED laterVars

\* ------------------------------------------------- cell 4: synthetic table
\* np.random.choice(options): one of the options, uniformly
Pick(options, r) == options[1 + (r % Len(options))]

\* np.random.choice(['Yes', 'No'], p=[0.2, 0.8])
PickChurn(r) == IF r % 5 = 0 THEN "Yes" ELSE "No"

\* the j-th batch of n_records draws after state s (columns are drawn in the
\* order the dict lists them; CustomerID draws nothing)
ColDraws(s, j) == Batch(Stream(s, (j - 1) * n_records), n_records)

GenerateRow(s, i) ==
    [c \in Range(GeneratedCols) |->
        CASE c = "CustomerID"       -> i
          [] c = "Age"              -> IntVal(18 + (ColDraws(s, 1)[i] % 52))
          [] c = "Gender"           -> Pick(<<"Male", "Female">>, ColDraws(s, 2)[i])
          [] c = "ContractType"     -> Pick(<<"Month-to-month", "One year", "Two year">>,
                                            ColDraws(s, 3)[i])
          [] c = "MonthlyCharges"   -> IntVal(20 + 20 * (ColDraws(s, 4)[i] % 6))
          [] c = "TotalCharges"     -> IntVal(100 + 100 * (ColDraws(s, 5)[i] % 80))
          [] c = "TechSupport"      -> Pick(<<"Yes", "No">>, ColDraws(s, 6)[i])
          [] c = "InternetService"  -> Pick(<<"DSL", "Fiber optic", "No">>, ColDraws(s, 7)[i])
          [] c = "Tenure"           -> IntVal(1 + (ColDraws(s, 8)[i] % MaxTenure))
          [] c = "PaperlessBilling" -> Pick(<<"Yes", "No">>, ColDraws(s, 9)[i])
          [] c = "PaymentMethod"    -> Pick(<<"Cash", "UPI", "Internet Banking", "Debit card",
                                              "Credit card">>, ColDraws(s, 10)[i])
          [] c = "Churn"            -> PickChurn(ColDraws(s, 11)[i])]

GenerateTable(s) == [i \in Rows |-> GenerateRow(s, i)]

\* both labels occur among n_records draws with prior 0.2 / 0.8
BothLabels(t) == \A l \in {"Yes", "No"} : \E i \in DOMAIN t : t[i]["Churn"] = l

GenerateData ==
    /\ pc = "generate"
    /\ BothLabels(GenerateTable(rng))
    /\ data' = GenerateTable(rng)
    /\ rng' = Stream(rng, 11 * n_records)
    /\ pc' = "derive"
    /\ UNCHANGED <<seed, disk, nWrites, nReads, imputer, label_encoders, scaler>>
    /\ UNCHANGED laterVars

\* ------------------------------------------------- cell 5: derived features
\* np.where(Tenure == 0, 1, Tenure)
GuardZero(t) == IF t = IntVal(0) THEN IntVal(1) ELSE t

AddColumn(row, c, v) == [k \in DOMAIN row \cup {c} |-> IF k = c THEN v ELSE row[k]]

\* variant: the average taken from the monthly charge instead of the total
DeriveRow_FromMonthly(row) ==
    LET r1 == AddColumn(row, "average_monthly_charges",
                        RatDiv(row["MonthlyCharges"], GuardZero(row["Tenure"])))
    IN  AddColumn(r1, "customer_lifetime_value",
                  RatMul(row["MonthlyCharges"], row["Tenure"]))

DeriveRow(row) ==
    LET r1 == AddColumn(row, "average_monthly_charges",
                        RatDiv(row["TotalCharges"], GuardZero(row["Tenure"])))
    IN  AddColumn(r1, "customer_lifetime_value",
                  RatMul(row["MonthlyCharges"], row["Tenure"]))

DerivedFeatures ==
    /\ pc = "derive"
    /\ data' = [i \in DOMAIN data |-> DeriveRow(data[i])]
    /\ pc' = "inject"
    /\ UNCHANGED <<seed, rng, disk, nWrites, nReads, imputer, label_encoders, scaler>>
    /\ UNCHANGED laterVars

\* ---------------------------------------- cell 6: missing values, outliers
\* data.index
Index(t) == [i \in 1..Len(t) |-> i]

MissingIdx(t, s) == ChoiceNoReplace(Index(t), NMissing, s)

OutlierIdx(t, s) == ChoiceNoReplace(Index(t), NOutliers, AfterPermutation(s, Len(t)))

\* data.loc[idx, 'TotalCharges'] = np.nan
SetMissing(t, idx) ==
    [i \in DOMAIN t |->
        IF i \in Range(idx) THEN [t[i] EXCEPT !["TotalCharges"] = NaN] ELSE t[i]]

\* data.loc[idx, 'MonthlyCharges'] *= 1.5
Inflate(t, idx) ==
    [i \in DOMAIN t |->
        IF i \in Range(idx)
        THEN [t[i] EXCEPT !["MonthlyCharges"] = RatMul(@, Rat(3, 2))]
        ELSE t[i]]

InjectNoise ==
    /\ pc = "inject"
    /\ data' = Inflate(SetMissing(data, MissingIdx(data, rng)), OutlierIdx(data, rng))
    /\ rng' = AfterPermutation(AfterPermutation(rng, Len(data)), Len(data))
    /\ pc' = "save"
    /\ UNCHANGED <<seed, disk, nWrites, nReads, imputer, label_encoders, scaler>>
    /\ UNCHANGED laterVars

\* ------------------------------------------------------ cell 7: to_csv
\* a CSV field: its text, and for a number the value the text denotes
NumField(x) == [txt |-> "#", num |-> x]
StrField(s) == [txt |-> s, num |-> NaN]

\* to_csv writes a missing value as the empty field
FormatField(c, v) ==
    IF c = "CustomerID" THEN NumField(IntVal(v))
    ELSE IF c \in Range(CategoricalCols) THEN StrField(v)
    ELSE IF IsNaN(v) THEN StrField("") ELSE NumField(v)

ToCsv(t) == [i \in DOMAIN t |-> [c \in DOMAIN t[i] |-> FormatField(c, t[i][c])]]

SaveCsv ==
    /\ pc = "save"
    /\ disk' = [exists |-> TRUE, rows |-> ToCsv(data)]
    /\ nWrites' = nWrites + 1
    /\ pc' = "read"
    /\ UNCHANGED <<seed, rng, data, nReads, imputer, label_encoders, scaler>>
    /\ UNCHANGED laterVars

\* ------------------------------------------------------ cell 10: read_csv
\* variant: a reader that also takes the label No for a missing value
NaValues_WithNo ==
    {"", "#N/A", "#N/A N/A", "#NA", "-1.#IND", "-1.#QNAN", "-NaN", "-nan", "1.#IND",
     "1.#QNAN", "<NA>", "N/A", "NA", "NULL", "NaN", "None", "n/a", "nan", "null", "No"}

\* pandas' default na_values
NaValues ==
    {"", "#N/A", "#N/A N/A", "#NA", "-1.#IND", "-1.#QNAN", "-NaN", "-nan", "1.#IND",
     "1.#QNAN", "<NA>", "N/A", "NA", "NULL", "NaN", "None", "n/a", "nan", "null"}

\* the missing value of a text column
NullStr == "<NaN>"

ParseField(c, f) ==
    IF c = "CustomerID" THEN f.num[1]
    ELSE IF c \in Range(CategoricalCols)
         THEN (IF f.txt \in NaValues THEN NullStr ELSE f.txt)
         ELSE (IF f.txt \in NaValues THEN NaN ELSE f.num)

FromCsv(rows) == [i \in DOMAIN rows |-> [c \in DOMAIN rows[i] |-> ParseField(c, rows[i][c])]]

ReadCsv ==
    /\ pc = "read"
    /\ disk.exists
    /\ data' = FromCsv(disk.rows)
    /\ nReads' = nReads + 1
    /\ pc' = "analyze"
    /\ UNCHANGED <<seed, rng, disk, nWrites, imputer, label_encoders, scaler>>
    /\ UNCHANGED laterVars

\* ------------------------------------- cells 11-14: descriptive analysis
\* describe(), countplot, pairplot, corr(), heatmap: read `data`, change nothing
DescriptiveAnalysis ==
    /\ pc = "analyze"
    /\ pc' = "impute"
    /\ UNCHANGED <<prepVars, laterVars>>

\* ------------------------------------------- cell 17: SimpleImputer(mean)
RECURSIVE RatSum(_)
RatSum(xs) == IF xs = <<>> THEN IntVal(0) ELSE RatAdd(Head(xs), RatSum(Tail(xs)))

Column(t, c) == [i \in DOMAIN t |-> t[i][c]]

NotNaN(x) == ~IsNaN(x)

\* variant: the sum of the present values over the number of all rows
NanMean_OverAllRows(xs) ==
    RatDiv(RatSum(SelectSeq(xs, NotNaN)), IntVal(Len(xs)))

\* np.nanmean: the mean over the values that are not NaN
NanMean(xs) ==
    LET present == SelectSeq(xs, NotNaN)
    IN  RatDiv(RatSum(present), IntVal(Len(present)))

\* imputer.transform: NaN becomes statistics_, every other value stays
FillNaN(x, fill) == IF IsNaN(x) THEN fill ELSE x

ImputeColumn(t, c, fill) ==
    [i \in DOMAIN t |-> [t[i] EXCEPT ![c] = FillNaN(@, fill)]]

\* variant: an imputation step that writes the imputed table back to the file
HandleMissing_WritesBack ==
    /\ pc = "impute"
    /\ \E i \in DOMAIN data : ~IsNaN(data[i]["TotalCharges"])
    /\ imputer' = [fitted |-> TRUE,
                   statistics_ |-> NanMean(Column(data, "TotalCharges")),
                   n |-> Len(data)]
    /\ data' = ImputeColumn(data, "TotalCharges", NanMean(Column(data, "TotalCharges")))
    /\ disk' = [exists |-> TRUE,
                rows |-> ToCsv(ImputeColumn(data, "TotalCharges",
                                            NanMean(Column(data, "TotalCharges"))))]
    /\ nWrites' = nWrites + 1
    /\ pc' = "encode"
    /\ UNCHANGED <<seed, rng, nReads, label_encoders, scaler>>
    /\ UNCHANGED laterVars

HandleMissing ==
    /\ pc = "impute"
    /\ \E i \in DOMAIN data : ~IsNaN(data[i]["TotalCharges"])
    /\ imputer' = [fitted |-> TRUE,
                   statistics_ |-> NanMean(Column(data, "TotalCharges")),
                   n |-> Len(data)]
    /\ data' = ImputeColumn(data, "TotalCharges", NanMean(Column(data, "TotalCharges")))
    /\ pc' = "encode"
    /\ UNCHANGED <<seed, rng, disk, nWrites, nReads, label_encoders, scaler>>
    /\ UNCHANGED laterVars

\* ------------------------------------------------ cell 18: LabelEncoder
\* every label of the table, in the order np.unique sorts strings (by code point)
SortedLabels ==
    <<"Cash", "Credit card", "DSL", "Debit card", "Female", "Fiber optic",
      "Internet Banking", "Male", "Month-to-month", "No", "One year", "Two year",
      "UPI", "Yes">>

\* variant: classes_ in descending order
FitClasses_Descending(xs) ==
    LET Present(l) == l \in Range(xs)
    IN  SelectSeq([k \in DOMAIN SortedLabels |-> SortedLabels[Len(SortedLabels) + 1 - k]],
                  Present)

\* le.fit: classes_ = the sorted distinct values of the column
FitClasses(xs) ==
    LET Present(l) == l \in Range(xs)
    IN  SelectSeq(SortedLabels, Present)

\* le.transform: the position of the label in classes_, counted from 0
Encode(classes, l) == (CHOOSE k \in DOMAIN classes : classes[k] = l) - 1

EncodeColumn(t, c) ==
    [i \in DOMAIN t |-> [t[i] EXCEPT ![c] = Encode(FitClasses(Column(t, c)), @)]]

RECURSIVE EncodeColumns(_, _)
EncodeColumns(t, cols) ==
    IF cols = <<>> THEN t ELSE EncodeColumns(EncodeColumn(t, Head(cols)), Tail(cols))

EncodeCategorical ==
    /\ pc = "encode"
    /\ \A i \in DOMAIN data : \A c \in Range(CategoricalCols) : data[i][c] # NullStr
    /\ label_encoders' = [c \in Range(CategoricalCols) |-> FitClasses(Column(data, c))]
    /\ data' = EncodeColumns(data, CategoricalCols)
    /\ pc' = "scale"
    /\ UNCHANGED <<seed, rng, disk, nWrites, nReads, imputer, scaler>>
    /\ UNCHANGED laterVars

\* ------------------------------------------------ cell 19: StandardScaler
SurdZero == <<0, 0, 1>>
SurdOne == <<1, 1, 1>>

\* s * sqrt(p / q), with p / q reduced
Surd(s, p, q) == IF s = 0 \/ p = 0 THEN SurdZero ELSE <<s, Rat(p, q)[1], Rat(p, q)[2]>>

\* The column as integers on a common denominator, centred and multiplied by
\* the number of rows: a[i] = n * L * (x[i] - mean).
Centred(xs) ==
    LET L == LcmSeq([i \in DOMAIN xs |-> xs[i][2]])
        b == [i \in DOMAIN xs |-> xs[i][1] * (L \div xs[i][2])]
    IN  [i \in DOMAIN xs |-> Len(xs) * b[i] - SumSeq(b)]

\* (x - mean_) / scale_, scale_ = sqrt(var_) and 1 where var_ = 0:
\* z[i]^2 = (x[i] - mean)^2 / var = n * a[i]^2 / sum_j a[j]^2
Standardize(xs) ==
    LET a  == Centred(xs)
        g  == GcdSeq(a)
        r  == [i \in DOMAIN a |-> IF g = 0 THEN 0 ELSE a[i] \div g]
        ss == SumSeq([i \in DOMAIN r |-> r[i] * r[i]])
    IN  [i \in DOMAIN xs |->
            IF g = 0 THEN SurdZero ELSE Surd(Sgn(r[i]), Len(xs) * r[i] * r[i], ss)]

ScaleColumn(t, c) ==
    [i \in DOMAIN t |-> [t[i] EXCEPT ![c] = Standardize(Column(t, c))[i]]]

RECURSIVE ScaleColumns(_, _)
ScaleColumns(t, cols) ==
    IF cols = <<>> THEN t ELSE ScaleColumns(ScaleColumn(t, Head(cols)), Tail(cols))

\* variant: a scaler fitted on a part of the rows (all but the last) only
FeatureScaling_TrainRowsOnly ==
    /\ pc = "scale"
    /\ scaler' = [fitted |-> TRUE,
                  mean_ |-> [c \in Range(NumericCols) |->
                                NanMean(SubSeq(Column(data, c), 1, Len(data) - 1))],
                  n_samples_seen_ |-> Len(data) - 1]
    /\ data' = ScaleColumns(data, NumericCols)
    /\ pc' = "split"
    /\ UNCHANGED <<seed, rng, disk, nWrites, nReads, imputer, label_encoders>>
    /\ UNCHANGED laterVars

FeatureScaling ==
    /\ pc = "scale"
    /\ scaler' = [fitted |-> TRUE,
                  mean_ |-> [c \in Range(NumericCols) |-> NanMean(Column(data, c))],
                  n_samples_seen_ |-> Len(data)]
    /\ data' = ScaleColumns(data, NumericCols)
    /\ pc' = "split"
    /\ UNCHANGED <<seed, rng, disk, nWrites, nReads, imputer, label_encoders>>
    /\ UNCHANGED laterVars

\* ----------------------------------- cell 20: X, y and the stratified split
DropColumns(row, cols) == [c \in DOMAIN row \ cols |-> row[c]]

RECURSIVE SortAsc(_)
\* np.unique: the values of a set of integers in increasing order
SortAsc(S) ==
    IF S = {} THEN <<>>
    ELSE LET m == CHOOSE x \in S : \A z \in S : x <= z
         IN  <<m>> \o SortAsc(S \ {m})

RECURSIVE SortDesc(_)
SortDesc(S) ==
    IF S = {} THEN <<>>
    ELSE LET m == CHOOSE x \in S : \A z \in S : x >= z
         IN  <<m>> \o SortDesc(S \ {m})

\* np.bincount over the classes
ClassCounts(labels, classes) ==
    [k \in DOMAIN classes |-> Cardinality({i \in DOMAIN labels : labels[i] = classes[k]})]

\* ceil(test_size * n_samples) for test_size = 0.2
NTest(n) == (2 * n + 9) \div 10

NTrain(n) == n - NTest(n)

RECURSIVE AddByRemainder(_, _, _, _, _)
\* _approximate_mode, the loop over the remainders from the largest down: the
\* classes sharing a remainder get one more each, chosen by rng.choice when
\* fewer are needed than there are
AddByRemainder(floored, rem, need, vals, s) ==
    IF vals = <<>> THEN [n |-> floored, s |-> s]
    ELSE LET Tied(k) == rem[k] = Head(vals)
             inds    == SelectSeq([k \in DOMAIN rem |-> k], Tied)
             add_now == Min(Len(inds), need)
             chosen  == ChoiceNoReplace(inds, add_now, s)
             more    == [k \in DOMAIN floored |->
                            floored[k] + (IF k \in Range(chosen) THEN 1 ELSE 0)]
             s2      == AfterPermutation(s, Len(inds))
         IN  IF need - add_now = 0 THEN [n |-> more, s |-> s2]
             ELSE AddByRemainder(more, rem, need - add_now, Tail(vals), s2)

\* sklearn's _approximate_mode(class_counts, n_draws, rng): n_draws split over
\* the classes in proportion to their counts
ApproximateMode(counts, n_draws, s) ==
    LET total   == SumSeq(counts)
        floored == [k \in DOMAIN counts |-> (counts[k] * n_draws) \div total]
        rem     == [k \in DOMAIN counts |-> (counts[k] * n_draws) % total]
        need    == n_draws - SumSeq(floored)
    IN  IF need > 0
        THEN AddByRemainder(floored, rem, need, SortDesc(Range(rem)), s)
        ELSE [n |-> floored, s |-> s]

RECURSIVE TakePerClass(_, _, _, _, _, _, _)
\* for each class in turn: permute its rows, the first n_i go to train and
\* the next t_i to test
TakePerClass(labels, classes, k, n_i, t_i, acc, s) ==
    IF k > Len(classes) THEN [train |-> acc.train, test |-> acc.test, s |-> s]
    ELSE LET InClass(i) == labels[i] = classes[k]
             members == SelectSeq([i \in DOMAIN labels |-> i], InClass)
             perm    == Permutation(members, s)
         IN  TakePerClass(labels, classes, k + 1, n_i, t_i,
                          [train |-> acc.train \o SubSeq(perm, 1, n_i[k]),
                           test  |-> acc.test \o SubSeq(perm, n_i[k] + 1, n_i[k] + t_i[k])],
                          AfterPermutation(s, Len(members)))

\* variant: the split without stratify (ShuffleSplit): one permutation of all
\* rows, the first n_test to test and the rest to train
StratifiedSplit_Unstratified(labels, s) ==
    LET perm == Permutation([i \in DOMAIN labels |-> i], s)
    IN  [test  |-> SubSeq(perm, 1, NTest(Len(labels))),
         train |-> SubSeq(perm, NTest(Len(labels)) + 1, Len(labels))]

\* StratifiedShuffleSplit(test_size=0.2, random_state=s) over the labels
StratifiedSplit(labels, s) ==
    LET classes == SortAsc(Range(labels))
        counts  == ClassCounts(labels, classes)
        m1      == ApproximateMode(counts, NTrain(Len(labels)), s)
        left    == [k \in DOMAIN counts |-> counts[k] - m1.n[k]]
        m2      == ApproximateMode(left, NTest(Len(labels)), m1.s)
        taken   == TakePerClass(labels, classes, 1, m1.n, m2.n,
                                [train |-> <<>>, test |-> <<>>], m2.s)
    IN  [train |-> Permutation(taken.train, taken.s),
         test  |-> Permutation(taken.test, AfterPermutation(taken.s, Len(taken.train)))]

\* the split raises ValueError when a class has fewer than 2 members or a
\* partition has fewer rows than there are classes
CanStratify(labels) ==
    LET classes == SortAsc(Range(labels))
        counts  == ClassCounts(labels, classes)
    IN  /\ \A k \in DOMAIN counts : counts[k] >= 2
        /\ NTrain(Len(labels)) >= Len(classes)
        /\ NTest(Len(labels)) >= Len(classes)

Take(t, idx) == [k \in DOMAIN idx |-> t[idx[k]]]

Features(t) == [i \in DOMAIN t |-> DropColumns(t[i], {"CustomerID", "Churn"})]

SplitDataset ==
    /\ pc = "split"
    /\ CanStratify(Column(data, "Churn"))
    /\ X' = Features(data)
    /\ y' = Column(data, "Churn")
    /\ \E sp \in {StratifiedSplit(Column(data, "Churn"), seed)} :
           /\ train_index' = sp.train
           /\ test_index' = sp.test
           /\ X_train' = Take(Features(data), sp.train)
           /\ X_test' = Take(Features(data), sp.test)
           /\ y_train' = Take(Column(data, "Churn"), sp.train)
           /\ y_test' = Take(Column(data, "Churn"), sp.test)
    /\ pc' = "augment"
    /\ UNCHANGED <<prepVars, modelVars>>

\* train_test_split raises: X and y are bound, the partitions are not
SplitFails ==
    /\ pc = "split"
    /\ ~CanStratify(Column(data, "Churn"))
    /\ X' = Features(data)
    /\ y' = Column(data, "Churn")
    /\ pc' = "halted"
    /\ UNCHANGED <<prepVars, X_train, X_test, y_train, y_test, train_index, test_index, modelVars>>

\* ------------------------------------------ cell 23: feature engineering
\* x / y on standardised values; a zero divisor gives numpy's inf or nan,
\* kept as a triple whose last component is 0
SurdDiv(a, b) ==
    IF b[1] = 0 THEN <<a[1], (IF a[1] = 0 THEN 0 ELSE 1), 0>>
    ELSE IF a[1] = 0 THEN SurdZero
    ELSE LET r == RatMul(<<a[2], a[3]>>, <<b[3], b[2]>>)
         IN  <<a[1] * b[1], r[1], r[2]>>

\* variant: the divisor left as it is
WhereZeroOne_Unguarded(t) == t

\* np.where(Tenure == 0, 1, Tenure)
WhereZeroOne(t) == IF t = SurdZero THEN SurdOne ELSE t

MonthlyToTenure(row) == SurdDiv(row["MonthlyCharges"], WhereZeroOne(row["Tenure"]))

AddRatio(t) ==
    [i \in DOMAIN t |-> AddColumn(t[i], "monthly_to_tenure_ratio", MonthlyToTenure(t[i]))]

\* variant: partitions that are views of X, so that the new column lands in X too
FeatureEngineering_OnViews ==
    /\ pc = "augment"
    /\ X_train' = AddRatio(X_train)
    /\ X_test' = AddRatio(X_test)
    /\ X' = AddRatio(X)
    /\ pc' = "train_tree"
    /\ UNCHANGED <<prepVars, y, y_train, y_test, train_index, test_index, modelVars>>

FeatureEngineering ==
    /\ pc = "augment"
    /\ X_train' = AddRatio(X_train)
    /\ X_test' = AddRatio(X_test)
    /\ pc' = "train_tree"
    /\ UNCHANGED <<prepVars, X, y, y_train, y_test, train_index, test_index, modelVars>>

\* ------------------------------------------------------ estimator objects
\* What fit() computes inside the library is opaque here.  What the model keeps
\* is that a fitted estimator is a deterministic function of its class, its
\* parameters, its random_state and the rows it was fitted on: the decision
\* function is a digest of exactly those.
Unfitted == [fitted |-> FALSE]

NoSearch == [stage |-> "none"]

Mix(k) == Stream(k % 32749, 3)

\* a point of feature space: a row of X, or SMOTE's base + lam * (neighbour - base)
Point(row) == [synthetic |-> FALSE, base |-> row, neighbour |-> row, lam |-> IntVal(0)]

Points(t) == [i \in DOMAIN t |-> Point(t[i])]

FeatureOrder == AllCols \o <<"monthly_to_tenure_ratio">>

ColumnNo(c) == CHOOSE k \in DOMAIN FeatureOrder : FeatureOrder[k] = c

ValueDigest(c, v) ==
    IF c \in Range(CategoricalCols) THEN v + 1
    ELSE (v[1] + 2) + 5 * (v[2] % 11) + 3 * (v[3] % 13)

RowDigest(row) ==
    SumSeq([k \in DOMAIN FeatureOrder |->
               IF FeatureOrder[k] \in DOMAIN row
               THEN k * ValueDigest(FeatureOrder[k], row[FeatureOrder[k]])
               ELSE 0])

PointDigest(p) ==
    IF p.synthetic
    THEN (RowDigest(p.base) + 3 * RowDigest(p.neighbour) + 7 * p.lam[1] + 1) % 32749
    ELSE RowDigest(p.base)

TrainDigest(pts, labels) ==
    SumSeq([i \in DOMAIN pts |-> (i * (PointDigest(pts[i]) + 1 + labels[i])) % 32749]) % 32749

Columns(pts) == IF pts = <<>> THEN {} ELSE DOMAIN pts[1].base

\* the values of the tree's parameter grid, key by key
TreeGridValues ==
    [class_weight      |-> <<"balanced", "None">>,
     criterion         |-> <<"gini", "entropy">>,
     max_depth         |-> <<"5", "10", "15", "20">>,
     max_features      |-> <<"sqrt", "log2", "None">>,
     min_samples_leaf  |-> <<"1", "5", "10">>,
     min_samples_split |-> <<"2", "10", "20">>]

NbGridValues == <<"1e-9", "1e-8", "1e-7", "1e-6", "1e-5">>

PosIn(seq, v) == CHOOSE k \in DOMAIN seq : seq[k] = v

\* the number of a tree configuration in ParameterGrid's order: keys sorted by
\* name, the last key varying fastest
TreeGridIndex(params) ==
    1 + (PosIn(TreeGridValues.min_samples_split, params.min_samples_split) - 1)
      + 3 * (PosIn(TreeGridValues.min_samples_leaf, params.min_samples_leaf) - 1)
      + 9 * (PosIn(TreeGridValues.max_features, params.max_features) - 1)
      + 27 * (PosIn(TreeGridValues.max_depth, params.max_depth) - 1)
      + 108 * (PosIn(TreeGridValues.criterion, params.criterion) - 1)
      + 216 * (PosIn(TreeGridValues.class_weight, params.class_weight) - 1)

ParamDigest(estimator, params) ==
    IF estimator = "DecisionTreeClassifier" THEN TreeGridIndex(params)
    ELSE 500 + PosIn(NbGridValues, params.var_smoothing)

\* estimator.fit(X, y)
Fit(estimator, params, pts, labels, rs) ==
    [fitted            |-> TRUE,
     estimator         |-> estimator,
     params            |-> params,
     random_state      |-> rs,
     classes_          |-> SortAsc(Range(labels)),
     feature_names_in_ |-> Columns(pts),
     n_samples         |-> Len(pts),
     fit_id            |-> Mix(TrainDigest(pts, labels) + 17 * ParamDigest(estimator, params) + rs)]

\* predict_proba(X)[:, 1] in quarters: the probability of classes_[2]
ProbaCol1(model, p) ==
    LET q == Mix(model.fit_id + PointDigest(p)) % 4
    IN  Rat((IF q >= 2 THEN q + 1 ELSE q), 4)

\* predict(X): the class of largest probability, the first one on a tie
Predict(model, p) ==
    IF Len(model.classes_) = 1 THEN model.classes_[1]
    ELSE IF 2 * ProbaCol1(model, p)[1] > ProbaCol1(model, p)[2]
         THEN model.classes_[2] ELSE model.classes_[1]

PredictAll(model, pts) == [i \in DOMAIN pts |-> Predict(model, pts[i])]

ProbaAll(model, pts) == [i \in DOMAIN pts |-> ProbaCol1(model, pts[i])]

\* feature_importances_: one weight per fitted feature, normalised to sum 1
FeatureWeight(model, c) == 1 + (Mix(model.fit_id + 101 * ColumnNo(c)) % 3)

FeatureImportances(model) ==
    LET total == SumSeq([k \in DOMAIN FeatureOrder |->
                           IF FeatureOrder[k] \in model.feature_names_in_
                           THEN FeatureWeight(model, FeatureOrder[k]) ELSE 0])
    IN  [c \in model.feature_names_in_ |-> Rat(FeatureWeight(model, c), total)]

\* ------------------------------------------------------ sklearn.metrics
\* the label the binary metrics count as positive (their default pos_label)
pos_label == 1

Count(S) == Cardinality(S)

TP(yt, yp) == Count({i \in DOMAIN yt : yt[i] = pos_label /\ yp[i] = pos_label})
FP(yt, yp) == Count({i \in DOMAIN yt : yt[i] # pos_label /\ yp[i] = pos_label})
FN(yt, yp) == Count({i \in DOMAIN yt : yt[i] = pos_label /\ yp[i] # pos_label})

\* zero_division: a metric with a zero denominator is reported as 0
Ratio0(n, d) == IF d = 0 THEN IntVal(0) ELSE Rat(n, d)

accuracy_score(yt, yp) == Rat(Count({i \in DOMAIN yt : yt[i] = yp[i]}), Len(yt))

precision_score(yt, yp) == Ratio0(TP(yt, yp), TP(yt, yp) + FP(yt, yp))

recall_score(yt, yp) == Ratio0(TP(yt, yp), TP(yt, yp) + FN(yt, yp))

f1_score(yt, yp) == Ratio0(2 * TP(yt, yp), 2 * TP(yt, yp) + FP(yt, yp) + FN(yt, yp))

RatLess(a, b) == a[1] * b[2] < b[1] * a[2]

\* roc_auc_score raises ValueError when y_true holds one class only
CanRoc(yt) == Cardinality(Range(yt)) = 2

\* the area under the ROC curve: the share of (positive, negative) pairs the
\* score orders correctly, ties counting half; positive is the larger label
roc_auc_score(yt, score) ==
    LET hi  == CHOOSE l \in Range(yt) : \A m \in Range(yt) : m <= l
        pos == {i \in DOMAIN yt : yt[i] = hi}
        neg == {i \in DOMAIN yt : yt[i] # hi}
        gt  == Count({pr \in pos \X neg : RatLess(score[pr[2]], score[pr[1]])})
        eq  == Count({pr \in pos \X neg : score[pr[1]] = score[pr[2]]})
    IN  Rat(2 * gt + eq, 2 * Count(pos) * Count(neg))

\* the five lines an evaluation cell prints; the cell stops at the ROC line
\* when that raises
MetricLines(label, yt, yp, score) ==
    [label     |-> label,
     accuracy  |-> accuracy_score(yt, yp),
     precision |-> precision_score(yt, yp),
     recall    |-> recall_score(yt, yp),
     f1        |-> f1_score(yt, yp),
     roc_auc   |-> IF CanRoc(yt) THEN roc_auc_score(yt, score) ELSE NaN]

\* ------------------------------------------- cell 27: train the baseline tree
TreeDefaults ==
    [max_depth |-> "5", min_samples_split |-> "2", min_samples_leaf |-> "1",
     max_features |-> "None", class_weight |-> "None", criterion |-> "gini"]

TrainDecisionTree ==
    /\ pc = "train_tree"
    /\ tree' = Fit("DecisionTreeClassifier", TreeDefaults, Points(X_train), y_train, seed)
    /\ y_pred_tree' =
           PredictAll(Fit("DecisionTreeClassifier", TreeDefaults, Points(X_train), y_train, seed),
                      Points(X_test))
    /\ pc' = "eval_tree"
    /\ UNCHANGED <<prepVars, splitVars, nb, best_tree, best_nb, y_pred_nb, y_pred_best_tree,
                   y_pred_best_nb, smoteVars, grid_search, reportVars>>

\* ------------------------------------------- cell 28: evaluate the baseline tree
EvaluateDecisionTree ==
    /\ pc = "eval_tree"
    /\ printed' = Append(printed, MetricLines("Decision Tree", y_test, y_pred_tree,
                                              ProbaAll(tree, Points(X_test))))
    /\ pc' = IF CanRoc(y_test) THEN "smote" ELSE "halted"
    /\ UNCHANGED <<prepVars, splitVars, fitVars, predVars, smoteVars, grid_search,
                   conf_matrix_logreg, importances, roc_auc>>

\* ------------------------------------------- cell 29: SMOTE, second split
\* the class SMOTE leaves alone: the most frequent one, the first on a tie
MajorityClass(labels) ==
    LET classes == SortAsc(Range(labels))
        counts  == ClassCounts(labels, classes)
        k       == CHOOSE k \in DOMAIN classes :
                       /\ \A j \in DOMAIN classes : counts[j] <= counts[k]
                       /\ \A j \in 1..(k - 1) : counts[j] < counts[k]
    IN  classes[k]

\* the rows of class c, in table order
Members(labels, c) ==
    LET InClass(i) == labels[i] = c
    IN  SelectSeq([i \in DOMAIN labels |-> i], InClass)

\* the j-th of the k nearest neighbours of the m-th member of the class
\* (kneighbors is opaque: some other member of the class)
NeighbourOf(members, m, j) == members[1 + ((m - 1 + j) % Len(members))]

\* _make_samples: n randint draws pick (row, neighbour), n uniform draws the step
SyntheticPoint(t, members, k, n, j, s) ==
    LET pick == Stream(s, j) % (Len(members) * k)
        m    == 1 + (pick \div k)
        col  == 1 + (pick % k)
        step == Rat(Stream(s, n + j) % 4, 4)
    IN  [synthetic |-> TRUE,
         base      |-> t[members[m]],
         neighbour |-> t[NeighbourOf(members, m, col)],
         lam       |-> step]

\* SMOTE(random_state=s, k_neighbors=k).fit_resample(t, labels) for two classes
FitResample(t, labels, k, s) ==
    LET major   == MajorityClass(labels)
        minor   == CHOOSE c \in Range(labels) : c # major
        members == Members(labels, minor)
        n       == Len(Members(labels, major)) - Len(members)
    IN  [X |-> Points(t) \o [j \in 1..n |-> SyntheticPoint(t, members, k, n, j, s)],
         y |-> labels \o [j \in 1..n |-> minor]]

\* kneighbors needs k + 1 rows of the class
CanResample(labels, k) ==
    /\ Cardinality(Range(labels)) = 2
    /\ \A c \in Range(labels) :
           c # MajorityClass(labels) => Len(Members(labels, c)) > k

\* ShuffleSplit(test_size=0.2, random_state=s): the first n_test of a
\* permutation are the test rows, the rest the train rows
ShuffleSplit(n, s) ==
    LET perm == Permutation([i \in 1..n |-> i], s)
    IN  [test |-> SubSeq(perm, 1, NTest(n)), train |-> SubSeq(perm, NTest(n) + 1, n)]

ResampleAndSplit ==
    /\ pc = "smote"
    /\ CanResample(y, SmoteK)
    /\ LET res == FitResample(X, y, SmoteK, seed)
           sp  == ShuffleSplit(Len(res.X), seed)
       IN  /\ X_resampled' = res.X
           /\ y_resampled' = res.y
           /\ X_train_smote' = Take(res.X, sp.train)
           /\ X_test_smote' = Take(res.X, sp.test)
           /\ y_train_smote' = Take(res.y, sp.train)
           /\ y_test_smote' = Take(res.y, sp.test)
    /\ pc' = "gs_tree"
    /\ UNCHANGED <<prepVars, splitVars, fitVars, predVars, grid_search, reportVars>>

\* ------------------------------------------- cells 30, 35: GridSearchCV
\* candidate c of the tree grid, in ParameterGrid's order
TreeCandidate(c) ==
    [class_weight      |-> TreeGridValues.class_weight[1 + (((c - 1) \div 216) % 2)],
     criterion         |-> TreeGridValues.criterion[1 + (((c - 1) \div 108) % 2)],
     max_depth         |-> TreeGridValues.max_depth[1 + (((c - 1) \div 27) % 4)],
     max_features      |-> TreeGridValues.max_features[1 + (((c - 1) \div 9) % 3)],
     min_samples_leaf  |-> TreeGridValues.min_samples_leaf[1 + (((c - 1) \div 3) % 3)],
     min_samples_split |-> TreeGridValues.min_samples_split[1 + ((c - 1) % 3)]]

NbCandidate(c) == [var_smoothing |-> NbGridValues[c]]

Candidate(estimator, c) ==
    IF estimator = "DecisionTreeClassifier" THEN TreeCandidate(c) ELSE NbCandidate(c)

\* task t fits candidate CandOf(t) on all folds but FoldOf(t) and scores it there
CandOf(t, cv) == 1 + ((t - 1) \div cv)
FoldOf(t, cv) == 1 + ((t - 1) % cv)

\* _fit_and_score of one (candidate, fold): the accuracy on the held-out fold,
\* a deterministic function of the estimator, the candidate, the fold and the
\* training rows (in quarters)
FitAndScore(estimator, c, f, pts, labels, rs) ==
    Rat(Mix(TrainDigest(pts, labels) + 131 * ParamDigest(estimator, Candidate(estimator, c))
            + 17 * f + rs) % 5, 4)

\* a result not yet returned
Pending == NaN

\* variant: results kept in the order the workers return them
StoreResult_ArrivalOrder(results, t, score) ==
    [results EXCEPT ![CHOOSE k \in DOMAIN results :
                          /\ IsNaN(results[k])
                          /\ \A j \in 1..(k - 1) : ~IsNaN(results[j])] = score]

\* joblib hands every result back in the slot of the task it was dispatched as
StoreResult(results, t, score) == [results EXCEPT ![t] = score]

\* mean_test_score of candidate c
MeanTestScore(results, c, cv) ==
    RatDiv(RatSum([f \in 1..cv |-> results[(c - 1) * cv + f]]), IntVal(cv))

\* best_index_: rank_test_score 1, the first candidate of the largest mean
BestIndex(results, ncand, cv) ==
    CHOOSE c \in 1..ncand :
        /\ \A d \in 1..ncand : ~RatLess(MeanTestScore(results, c, cv), MeanTestScore(results, d, cv))
        /\ \A d \in 1..(c - 1) : RatLess(MeanTestScore(results, d, cv), MeanTestScore(results, c, cv))

\* GridSearchCV(estimator, param_grid, cv, n_jobs=-1).fit: the tasks are
\* dispatched in order, NWorkers at a time
StartSearch(estimator, ncand, cv, rs) ==
    [stage        |-> "running",
     estimator    |-> estimator,
     n_candidates |-> ncand,
     cv           |-> cv,
     random_state |-> rs,
     results      |-> [t \in 1..(ncand * cv) |-> Pending],
     running      |-> 1..Min(NWorkers, ncand * cv),
     next         |-> Min(NWorkers, ncand * cv) + 1,
     best_index_  |-> 0,
     best_score_  |-> NaN]

\* StratifiedKFold(cv) raises when every class has fewer than cv members
CanFold(labels, cv) ==
    \E c \in Range(labels) : Len(Members(labels, c)) >= cv

GridSearchTreeStart ==
    /\ pc = "gs_tree"
    /\ CanFold(y_train_smote, TreeCV)
    /\ grid_search' = StartSearch("DecisionTreeClassifier", TreeGridSize, TreeCV, seed)
    /\ pc' = "gs_tree_fit"
    /\ UNCHANGED <<prepVars, splitVars, fitVars, predVars, smoteVars, reportVars>>

\* a worker finishes the task it runs (any running task may be the next to
\* finish) and takes the next undispatched one
WorkerFinishes(t) ==
    /\ pc \in {"gs_tree_fit", "gs_nb_fit"}
    /\ t \in grid_search.running
    /\ grid_search' =
           [grid_search EXCEPT
               !.results = StoreResult(@, t,
                               FitAndScore(grid_search.estimator, CandOf(t, grid_search.cv),
                                           FoldOf(t, grid_search.cv), X_train_smote,
                                           y_train_smote, grid_search.random_state)),
               !.running = (@ \ {t}) \cup
                               (IF grid_search.next <= Len(grid_search.results)
                                THEN {grid_search.next} ELSE {}),
               !.next    = IF @ <= Len(grid_search.results) THEN @ + 1 ELSE @]
    /\ UNCHANGED <<pc, prepVars, splitVars, fitVars, predVars, smoteVars, reportVars>>

\* all results are in: cv_results_, best_index_, best_score_
Finished(gs) ==
    [gs EXCEPT !.stage = "done",
               !.best_index_ = BestIndex(gs.results, gs.n_candidates, gs.cv),
               !.best_score_ = MeanTestScore(gs.results,
                                             BestIndex(gs.results, gs.n_candidates, gs.cv), gs.cv)]

\* refit=True: best_estimator_ is the best candidate fitted on the whole train set
BestEstimator(gs, pts, labels) ==
    Fit(gs.estimator, Candidate(gs.estimator, Finished(gs).best_index_), pts, labels,
        gs.random_state)

GridSearchTreeDone ==
    /\ pc = "gs_tree_fit"
    /\ grid_search.running = {}
    /\ grid_search' = Finished(grid_search)
    /\ best_tree' = BestEstimator(grid_search, X_train_smote, y_train_smote)
    /\ y_pred_best_tree' =
           PredictAll(BestEstimator(grid_search, X_train_smote, y_train_smote), X_test_smote)
    /\ pc' = "eval_best_tree"
    /\ UNCHANGED <<prepVars, splitVars, tree, nb, best_nb, y_pred_tree, y_pred_nb,
                   y_pred_best_nb, smoteVars, reportVars>>

\* ------------------------------------------- cell 31: evaluate the tuned tree
EvaluateBestTree ==
    /\ pc = "eval_best_tree"
    /\ printed' = Append(printed, MetricLines("Best Decision Tree", y_test_smote,
                                              y_pred_best_tree,
                                              ProbaAll(best_tree, X_test_smote)))
    /\ pc' = IF CanRoc(y_test_smote) THEN "train_nb" ELSE "halted"
    /\ UNCHANGED <<prepVars, splitVars, fitVars, predVars, smoteVars, grid_search,
                   conf_matrix_logreg, importances, roc_auc>>

\* ------------------------------------------- cell 33: train naive Bayes
NbDefaults == [var_smoothing |-> "1e-9"]

TrainNaiveBayes ==
    /\ pc = "train_nb"
    /\ nb' = Fit("GaussianNB", NbDefaults, Points(X_train), y_train, 0)
    /\ y_pred_nb' = PredictAll(Fit("GaussianNB", NbDefaults, Points(X_train), y_train, 0),
                               Points(X_test))
    /\ pc' = "eval_nb"
    /\ UNCHANGED <<prepVars, splitVars, tree, best_tree, best_nb, y_pred_tree, y_pred_best_tree,
                   y_pred_best_nb, smoteVars, grid_search, reportVars>>

\* ------------------------------------------- cell 34: evaluate naive Bayes
EvaluateNaiveBayes ==
    /\ pc = "eval_nb"
    /\ printed' = Append(printed, MetricLines("Naive Bayes", y_test, y_pred_nb,
                                              ProbaAll(nb, Points(X_test))))
    /\ pc' = IF CanRoc(y_test) THEN "gs_nb" ELSE "halted"
    /\ UNCHANGED <<prepVars, splitVars, fitVars, predVars, smoteVars, grid_search,
                   conf_matrix_logreg, importances, roc_auc>>

\* ------------------------------------------- cell 35: tune naive Bayes
GridSearchNbStart ==
    /\ pc = "gs_nb"
    /\ CanFold(y_train_smote, NbCV)
    /\ grid_search' = StartSearch("Pipeline", NbGridSize, NbCV, 0)
    /\ pc' = "gs_nb_fit"
    /\ UNCHANGED <<prepVars, splitVars, fitVars, predVars, smoteVars, reportVars>>

GridSearchNbDone ==
    /\ pc = "gs_nb_fit"
    /\ grid_search.running = {}
    /\ grid_search' = Finished(grid_search)
    /\ best_nb' = BestEstimator(grid_search, X_train_smote, y_train_smote)
    /\ y_pred_best_nb' =
           PredictAll(BestEstimator(grid_search, X_train_smote, y_train_smote), X_test_smote)
    /\ pc' = "eval_best_nb"
    /\ UNCHANGED <<prepVars, splitVars, tree, nb, best_tree, y_pred_tree, y_pred_nb,
                   y_pred_best_tree, smoteVars, reportVars>>

\* ------------------------------------------- cell 36: evaluate the tuned naive Bayes
EvaluateBestNaiveBayes ==
    /\ pc = "eval_best_nb"
    /\ printed' = Append(printed, MetricLines("Best Naive Bayes", y_test_smote, y_pred_best_nb,
                                              ProbaAll(best_nb, X_test_smote)))
    /\ pc' = IF CanRoc(y_test_smote) THEN "confusion" ELSE "halted"
    /\ UNCHANGED <<prepVars, splitVars, fitVars, predVars, smoteVars, grid_search,
                   conf_matrix_logreg, importances, roc_auc>>

\* ------------------------------------------- cell 39: confusion matrix
\* rows are the actual labels, columns the predicted ones, both in sorted order
confusion_matrix(yt, yp) ==
    LET labels == SortAsc(Range(yt) \cup Range(yp))
    IN  [a \in DOMAIN labels |->
            [b \in DOMAIN labels |->
                Count({i \in DOMAIN yt : yt[i] = labels[a] /\ yp[i] = labels[b]})]]

ConfusionMatrix ==
    /\ pc = "confusion"
    /\ conf_matrix_logreg' = confusion_matrix(y_test_smote, y_pred_best_tree)
    /\ pc' = "importance"
    /\ UNCHANGED <<prepVars, splitVars, fitVars, predVars, smoteVars, grid_search,
                   printed, importances, roc_auc>>

\* ------------------------------------------- cell 40: feature importances
\* the columns of a table, in column order
ColumnSeq(cols) ==
    LET Has(c) == c \in cols
    IN  SelectSeq(FeatureOrder, Has)

\* pd.Series(values, index): the k-th value under the k-th label
Series(values, index) == [index |-> index, values |-> values]

\* model.feature_importances_: an array in the order of the fitted columns
ImportanceArray(model) ==
    [k \in DOMAIN ColumnSeq(model.feature_names_in_) |->
        FeatureImportances(model)[ColumnSeq(model.feature_names_in_)[k]]]

\* the estimator the importance cell reads
ImportanceModel == tree

FeatureImportance ==
    /\ pc = "importance"
    /\ Len(ImportanceArray(ImportanceModel)) = Len(ColumnSeq(Columns(Points(X_train))))
    /\ importances' = Series(ImportanceArray(ImportanceModel),
                             ColumnSeq(Columns(Points(X_train))))
    /\ pc' = "roc"
    /\ UNCHANGED <<prepVars, splitVars, fitVars, predVars, smoteVars, grid_search,
                   printed, conf_matrix_logreg, roc_auc>>

\* ------------------------------------------- cell 41: plot_roc(best_tree, ...)
PlotRoc ==
    /\ pc = "roc"
    /\ roc_auc' = roc_auc_score(y_test_smote, ProbaAll(best_tree, X_test_smote))
    /\ pc' = "done"
    /\ UNCHANGED <<prepVars, splitVars, fitVars, predVars, smoteVars, grid_search,
                   printed, conf_matrix_logreg, importances>>

\* ---------------------------------------------------------- specification
Init ==
    /\ pc = "seed"
    /\ seed \in 0..MaxSeed
    /\ rng = 0
    /\ data = <<>>
    /\ disk = [exists |-> FALSE, rows |-> <<>>]
    /\ nWrites = 0
    /\ nReads = 0
    /\ imputer = [fitted |-> FALSE, statistics_ |-> NaN, n |-> 0]
    /\ label_encoders = <<>>
    /\ scaler = [fitted |-> FALSE, mean_ |-> <<>>, n_samples_seen_ |-> 0]
    /\ X = <<>>
    /\ y = <<>>
    /\ X_train = <<>>
    /\ X_test = <<>>
    /\ y_train = <<>>
    /\ y_test = <<>>
    /\ train_index = <<>>
    /\ test_index = <<>>
    /\ tree = Unfitted
    /\ nb = Unfitted
    /\ best_tree = Unfitted
    /\ best_nb = Unfitted
    /\ y_pred_tree = <<>>
    /\ y_pred_nb = <<>>
    /\ y_pred_best_tree = <<>>
    /\ y_pred_best_nb = <<>>
    /\ X_resampled = <<>>
    /\ y_resampled = <<>>
    /\ X_train_smote = <<>>
    /\ X_test_smote = <<>>
    /\ y_train_smote = <<>>
    /\ y_test_smote = <<>>
    /\ grid_search = NoSearch
    /\ printed = <<>>
    /\ conf_matrix_logreg = <<>>
    /\ importances = <<>>
    /\ roc_auc = NaN

Next ==
    \/ SetSeed
    \/ GenerateData
    \/ DerivedFeatures
    \/ InjectNoise
    \/ SaveCsv
    \/ ReadCsv
    \/ DescriptiveAnalysis
    \/ HandleMissing
    \/ EncodeCategorical
    \/ FeatureScaling
    \/ SplitDataset
    \/ SplitFails
    \/ FeatureEngineering
    \/ TrainDecisionTree
    \/ EvaluateDecisionTree
    \/ ResampleAndSplit
    \/ GridSearchTreeStart
    \/ \E t \in 1..MaxTasks : WorkerFinishes(t)
    \/ GridSearchTreeDone
    \/ EvaluateBestTree
    \/ TrainNaiveBayes
    \/ EvaluateNaiveBayes
    \/ GridSearchNbStart
    \/ GridSearchNbDone
    \/ EvaluateBestNaiveBayes
    \/ ConfusionMatrix
    \/ FeatureImportance
    \/ PlotRoc

Spec == Init /\ [][Next]_vars

\* The split cell at the notebook's own size: the Churn column of FullRecords
\* rows as cell 4 draws it (the 11th column drawn) and cell 18 encodes it; the
\* feature columns are left out (the split reads the labels only).
FullChurn(s, i) == PickChurn(Stream(s, 10 * FullRecords + i))

FullLabels(s) ==
    [i \in 1..FullRecords |-> Encode(<<"No", "Yes">>, FullChurn(s, i))]

SplitInit ==
    /\ seed \in 0..MaxSplitSeed
    /\ y = FullLabels(seed)
    /\ pc = "full_split"
    /\ rng = 0
    /\ data = <<>>
    /\ disk = [exists |-> FALSE, rows |-> <<>>]
    /\ nWrites = 0
    /\ nReads = 0
    /\ imputer = [fitted |-> FALSE, statistics_ |-> NaN, n |-> 0]
    /\ label_encoders = <<>>
    /\ scaler = [fitted |-> FALSE, mean_ |-> <<>>, n_samples_seen_ |-> 0]
    /\ X = <<>>
    /\ X_train = <<>>
    /\ X_test = <<>>
    /\ y_train = <<>>
    /\ y_test = <<>>
    /\ train_index = <<>>
    /\ test_index = <<>>
    /\ tree = Unfitted
    /\ nb = Unfitted
    /\ best_tree = Unfitted
    /\ best_nb = Unfitted
    /\ y_pred_tree = <<>>
    /\ y_pred_nb = <<>>
    /\ y_pred_best_tree = <<>>
    /\ y_pred_best_nb = <<>>
    /\ X_resampled = <<>>
    /\ y_resampled = <<>>
    /\ X_train_smote = <<>>
    /\ X_test_smote = <<>>
    /\ y_train_smote = <<>>
    /\ y_test_smote = <<>>
    /\ grid_search = NoSearch
    /\ printed = <<>>
    /\ conf_matrix_logreg = <<>>
    /\ importances = <<>>
    /\ roc_auc = NaN

\* train_test_split(X, y, test_size=0.2, random_state=42, stratify=y), labels only
SplitLabels ==
    /\ pc = "full_split"
    /\ CanStratify(y)
    /\ \E sp \in {StratifiedSplit(y, seed)} :
           /\ train_index' = sp.train
           /\ test_index' = sp.test
           /\ y_train' = Take(y, sp.train)
           /\ y_test' = Take(y, sp.test)
    /\ pc' = "full_done"
    /\ UNCHANGED <<prepVars, X, y, X_train, X_test, modelVars>>

SplitNext == SplitLabels

SplitSpec == SplitInit /\ [][SplitNext]_vars

\* ------------------------------------------------------------------ claims
\* the table as a reader of the file sees it
DiskTable == FromCsv(disk.rows)

\* the table cell 4 generates in this run, before anything else touches it
Generated == GenerateTable(seed)

AverageHolds(row) ==
    row["average_monthly_charges"] = RatDiv(row["TotalCharges"], GuardZero(row["Tenure"]))

LifetimeHolds(row) ==
    row["customer_lifetime_value"] = RatMul(row["MonthlyCharges"], row["Tenure"])

\* C1 as stated: in the persisted dataset every row satisfies both derived-
\* field definitions on its own field values.
C1_Original ==
    disk.exists => \A i \in DOMAIN DiskTable : AverageHolds(DiskTable[i]) /\ LifetimeHolds(DiskTable[i])

\* C1 as amended: in the persisted dataset the derived fields of every row are
\* the definitions applied to the values the row was generated with; a row
\* satisfies average_monthly_charges = TotalCharges / max(Tenure,1) on its own
\* values when its TotalCharges was not nulled, and customer_lifetime_value =
\* MonthlyCharges * Tenure when its MonthlyCharges was not inflated.
C1_Amended ==
    disk.exists =>
        \A i \in DOMAIN DiskTable :
            LET row == DiskTable[i]
                gen == DeriveRow(Generated[i])
            IN  /\ row["average_monthly_charges"] = gen["average_monthly_charges"]
                /\ row["customer_lifetime_value"] = gen["customer_lifetime_value"]
                /\ AverageHolds(gen) /\ LifetimeHolds(gen)
                /\ ~IsNaN(row["TotalCharges"]) => AverageHolds(row)
                /\ row["MonthlyCharges"] = gen["MonthlyCharges"] => LifetimeHolds(row)

\* a persisted table with a nulled row and an inflated row, neither of which
\* satisfies the definition on its own values
C1_Witness ==
    /\ disk.exists
    /\ \E i \in DOMAIN DiskTable : IsNaN(DiskTable[i]["TotalCharges"]) /\ ~AverageHolds(DiskTable[i])
    /\ \E i \in DOMAIN DiskTable :
           /\ DiskTable[i]["MonthlyCharges"] # Generated[i]["MonthlyCharges"]
           /\ ~LifetimeHolds(DiskTable[i])

\* C3: the imputation step leaves no null TotalCharges; a row that was null
\* holds the mean of the values that were not null before the step, and a row
\* that was not null keeps its value.
C3_Imputation ==
    [][pc = "impute" =>
          \A i \in DOMAIN data :
              /\ i \in DOMAIN data'
              /\ ~IsNaN(data'[i]["TotalCharges"])
              /\ IsNaN(data[i]["TotalCharges"]) =>
                     /\ RatMul(data'[i]["TotalCharges"],
                               IntVal(Cardinality({j \in DOMAIN data : ~IsNaN(data[j]["TotalCharges"])})))
                            = RatSum(SelectSeq(Column(data, "TotalCharges"), NotNaN))
              /\ ~IsNaN(data[i]["TotalCharges"]) =>
                     data'[i]["TotalCharges"] = data[i]["TotalCharges"]]_vars

\* the step has run on a table that had null rows and they now hold the
\* fitted mean
C3_Witness ==
    /\ pc = "encode"
    /\ imputer.fitted
    /\ \E i \in DOMAIN data :
           /\ IsNaN(DiskTable[i]["TotalCharges"])
           /\ data[i]["TotalCharges"] = imputer.statistics_
    /\ \E i \in DOMAIN data :
           /\ ~IsNaN(DiskTable[i]["TotalCharges"])
           /\ data[i]["TotalCharges"] # imputer.statistics_

NullRows(t) == {i \in DOMAIN t : IsNaN(t[i]["TotalCharges"])}

InflatedRows(t) ==
    {i \in DOMAIN t : t[i]["MonthlyCharges"] = RatMul(Generated[i]["MonthlyCharges"], Rat(3, 2))}

InjectedAsClaimed(t) ==
    /\ Cardinality(NullRows(t)) = NMissing
    /\ Cardinality(InflatedRows(t)) = NOutliers
    /\ \A i \in DOMAIN t \ NullRows(t) : t[i]["TotalCharges"] = Generated[i]["TotalCharges"]
    /\ \A i \in DOMAIN t \ InflatedRows(t) : t[i]["MonthlyCharges"] = Generated[i]["MonthlyCharges"]

\* C4: after generation exactly NMissing distinct rows have a null
\* TotalCharges and exactly NOutliers distinct rows have their MonthlyCharges
\* multiplied by 1.5; every other row keeps the values it was generated with
\* (in memory, in the file, and in the table read back).
C4_Injection ==
    /\ pc \in {"save", "read", "analyze", "impute"} => InjectedAsClaimed(data)
    /\ disk.exists => InjectedAsClaimed(DiskTable)

C4_Witness ==
    /\ pc = "analyze"
    /\ Cardinality(NullRows(data)) = NMissing
    /\ Cardinality(InflatedRows(data)) = NOutliers
    /\ NullRows(data) # InflatedRows(data)

OneRowPerCustomer(t) ==
    /\ Len(t) = n_records
    /\ \A i, j \in DOMAIN t : t[i]["CustomerID"] = t[j]["CustomerID"] => i = j

\* C5: from generation up to the train/test split the table has exactly
\* n_records rows, one row per CustomerID, and no row with a null Churn (a
\* label before the encoding, its code after).
C5_Dataset ==
    /\ pc \in {"derive", "inject", "save", "read", "analyze", "impute", "encode"} =>
           /\ OneRowPerCustomer(data)
           /\ \A i \in DOMAIN data : data[i]["Churn"] \in {"Yes", "No"}
    /\ pc \in {"scale", "split"} =>
           /\ OneRowPerCustomer(data)
           /\ \A i \in DOMAIN data : data[i]["Churn"] \in 0..(Len(label_encoders["Churn"]) - 1)
    /\ disk.exists =>
           /\ OneRowPerCustomer(DiskTable)
           /\ \A i \in DOMAIN DiskTable : DiskTable[i]["Churn"] \in {"Yes", "No"}

\* the table has been generated, saved, read back, imputed, encoded and scaled
C5_Witness ==
    /\ pc = "split"
    /\ scaler.fitted
    /\ Len(data) = n_records
    /\ \E i \in DOMAIN data : data[i]["Churn"] = 0
    /\ \E i \in DOMAIN data : data[i]["Churn"] = 1
\* C2 as stated: the feature-importance ranking the evaluator reports is
\* computed from the selected model, the tuned tree best_tree, and from no
\* other fitted model.
C2_Original ==
    pc \in {"roc", "done"} =>
        /\ importances.values = ImportanceArray(best_tree)
        /\ importances.values # ImportanceArray(tree)

PositionsOf(idx) == {idx[k] : k \in DOMAIN idx}

YesCount(labels) == Cardinality({i \in DOMAIN labels : labels[i] = 1})

\* the share of churners in a part of m rows with a of them churners is within
\* 2 percentage points of b churners among n rows
RateWithinTwoPoints(a, m, b, n) == 100 * Abs(a * n - b * m) <= 2 * m * n

\* C6: the first split partitions the FullRecords rows into a train part of
\* 80% and a test part of 20% that are disjoint and together hold every row
\* once, each part's labels are those of its rows, and the churn rate of each
\* part is within 2 percentage points of the churn rate of all rows.
C6_Split ==
    pc = "full_done" =>
        /\ Len(y) = FullRecords
        /\ 10 * Len(train_index) = 8 * Len(y)
        /\ 10 * Len(test_index) = 2 * Len(y)
        /\ Cardinality(PositionsOf(train_index)) = Len(train_index)
        /\ Cardinality(PositionsOf(test_index)) = Len(test_index)
        /\ PositionsOf(train_index) \cap PositionsOf(test_index) = {}
        /\ PositionsOf(train_index) \cup PositionsOf(test_index) = DOMAIN y
        /\ \A k \in DOMAIN train_index : y_train[k] = y[train_index[k]]
        /\ \A k \in DOMAIN test_index : y_test[k] = y[test_index[k]]
        /\ RateWithinTwoPoints(YesCount(y_train), Len(y_train), YesCount(y), Len(y))
        /\ RateWithinTwoPoints(YesCount(y_test), Len(y_test), YesCount(y), Len(y))

\* the full-size split has run on a table whose churn count is not a multiple
\* of 5, so that no part can hold the exact share
C6_Witness ==
    /\ pc = "full_done"
    /\ Len(train_index) = 4000
    /\ Len(test_index) = 1000
    /\ YesCount(y) % 5 # 0
    /\ YesCount(y_test) > 0

PreAugment ==
    {"seed", "generate", "derive", "inject", "save", "read", "analyze", "impute", "encode",
     "scale", "split", "augment", "full_split", "full_done"}

\* ratio * tenure = monthly, on values s * sqrt(p / q)
IsQuotient(ratio, monthly, tenure) ==
    /\ ratio[1] * tenure[1] = monthly[1]
    /\ monthly[1] # 0 =>
           RatMul(<<ratio[2], ratio[3]>>, <<tenure[2], tenure[3]>>) = <<monthly[2], monthly[3]>>
    /\ monthly[1] = 0 => ratio = SurdZero

GuardedRatio(row) ==
    /\ "monthly_to_tenure_ratio" \in DOMAIN row
    /\ row["monthly_to_tenure_ratio"][3] # 0
    /\ row["Tenure"] = SurdZero => row["monthly_to_tenure_ratio"] = row["MonthlyCharges"]
    /\ row["Tenure"] # SurdZero =>
           IsQuotient(row["monthly_to_tenure_ratio"], row["MonthlyCharges"], row["Tenure"])

\* C7: once the feature augmenter has run, every row of the train part and
\* of the test part has a monthly_to_tenure_ratio that is its monthly charge
\* when its tenure value is 0 and its monthly charge divided by its tenure
\* value otherwise, and that is never the result of a division by zero.
C7_GuardedRatio ==
    (pc \notin PreAugment /\ train_index # <<>>) =>
        /\ Len(X_train) = Len(train_index)
        /\ Len(X_test) = Len(test_index)
        /\ \A i \in DOMAIN X_train : GuardedRatio(X_train[i])
        /\ \A i \in DOMAIN X_test : GuardedRatio(X_test[i])

\* the augmenter has run on a part with a row of tenure value 0 and a monthly
\* charge other than 0, and a row of another tenure value
C7_Witness ==
    /\ pc = "train_tree"
    /\ \E i \in DOMAIN X_train :
           /\ X_train[i]["Tenure"] = SurdZero
           /\ X_train[i]["MonthlyCharges"] # SurdZero
           /\ X_train[i]["monthly_to_tenure_ratio"] = X_train[i]["MonthlyCharges"]
    /\ \E i \in DOMAIN X_train \cup DOMAIN X_test :
           LET row == IF i \in DOMAIN X_train THEN X_train[i] ELSE X_test[i]
           IN  /\ row["Tenure"] # SurdZero
               /\ row["monthly_to_tenure_ratio"] # row["MonthlyCharges"]
\* the code the encoder gives the churn label
ChurnCode == Encode(label_encoders["Churn"], "Yes")

\* the cell that printed a block of metrics: its true labels, its predictions,
\* its model and its test rows
Evaluated(label) ==
    CASE label = "Decision Tree" ->
             [yt |-> y_test, yp |-> y_pred_tree, model |-> tree, pts |-> Points(X_test)]
      [] label = "Naive Bayes" ->
             [yt |-> y_test, yp |-> y_pred_nb, model |-> nb, pts |-> Points(X_test)]
      [] label = "Best Decision Tree" ->
             [yt |-> y_test_smote, yp |-> y_pred_best_tree, model |-> best_tree,
              pts |-> X_test_smote]
      [] label = "Best Naive Bayes" ->
             [yt |-> y_test_smote, yp |-> y_pred_best_nb, model |-> best_nb,
              pts |-> X_test_smote]

\* precision, recall and F1 of class c, counted from the definitions
Hits(c, yt, yp) == Cardinality({i \in DOMAIN yt : yt[i] = c /\ yp[i] = c})
Predicted(c, yp) == Cardinality({i \in DOMAIN yp : yp[i] = c})
Actual(c, yt) == Cardinality({i \in DOMAIN yt : yt[i] = c})

PrecisionOf(c, yt, yp) ==
    IF Predicted(c, yp) = 0 THEN IntVal(0) ELSE Rat(Hits(c, yt, yp), Predicted(c, yp))

RecallOf(c, yt, yp) ==
    IF Actual(c, yt) = 0 THEN IntVal(0) ELSE Rat(Hits(c, yt, yp), Actual(c, yt))

F1Of(c, yt, yp) ==
    IF Predicted(c, yp) + Actual(c, yt) = 0 THEN IntVal(0)
    ELSE Rat(2 * Hits(c, yt, yp), Predicted(c, yp) + Actual(c, yt))

\* the probability the model gives class c
ProbaOf(model, c, p) ==
    IF model.classes_[2] = c THEN ProbaCol1(model, p)
    ELSE RatAdd(IntVal(1), RatMul(IntVal(-1), ProbaCol1(model, p)))

\* the area under the ROC curve with class c as the positive one
AucOf(c, yt, model, pts) ==
    LET pos == {i \in DOMAIN yt : yt[i] = c}
        neg == {i \in DOMAIN yt : yt[i] # c}
        gt  == Cardinality({pr \in pos \X neg :
                   RatLess(ProbaOf(model, c, pts[pr[2]]), ProbaOf(model, c, pts[pr[1]]))})
        eq  == Cardinality({pr \in pos \X neg :
                   ProbaOf(model, c, pts[pr[1]]) = ProbaOf(model, c, pts[pr[2]])})
    IN  Rat(2 * gt + eq, 2 * Cardinality(pos) * Cardinality(neg))

\* C8: the encoder gives the churn label Yes the integer the binary metrics
\* take for the positive class; every precision, recall and F1 printed, for
\* the baseline and for the tuned models, is that of the churn class, and
\* every ROC-AUC printed is the area with churn as the positive class scored
\* by the probability column at index 1, which is the column of churn.
C8_PositiveIsChurn ==
    /\ label_encoders # <<>> =>
           /\ ChurnCode = pos_label
           /\ label_encoders["Churn"] = <<"No", "Yes">>
    /\ \A k \in DOMAIN printed :
           LET e == Evaluated(printed[k].label)
           IN  /\ printed[k].precision = PrecisionOf(ChurnCode, e.yt, e.yp)
               /\ printed[k].recall = RecallOf(ChurnCode, e.yt, e.yp)
               /\ printed[k].f1 = F1Of(ChurnCode, e.yt, e.yp)
               /\ e.model.classes_[2] = ChurnCode
               /\ ~IsNaN(printed[k].roc_auc) =>
                      printed[k].roc_auc = AucOf(ChurnCode, e.yt, e.model, e.pts)

\* all four evaluations have printed, and in one of them the metrics of the
\* churn class are not those of the other class
C8_Witness ==
    /\ Len(printed) = 4
    /\ \A k \in DOMAIN printed : ~IsNaN(printed[k].roc_auc)
    /\ \E k \in DOMAIN printed :
           LET e == Evaluated(printed[k].label)
           IN  /\ printed[k].precision # PrecisionOf(1 - ChurnCode, e.yt, e.yp)
               /\ printed[k].recall # RecallOf(1 - ChurnCode, e.yt, e.yp)
               /\ printed[k].recall # IntVal(0)

\* C9: over a run the dataset file is written once, by the generator's save
\* step; it is never read before it is written; a finished run has written
\* it once and read it once; and no step other than the save changes the
\* file, so that what is on disk stays what the generator saved.
C9_DiskLifecycle ==
    /\ [](nWrites <= 1)
    /\ [](nReads <= 1)
    /\ [](nReads > 0 => nWrites = 1 /\ disk.exists)
    /\ [](pc = "done" => nWrites = 1 /\ nReads = 1)
    /\ [](disk.exists <=> nWrites = 1)
    /\ [][(disk' # disk \/ nWrites' # nWrites) => (pc = "save" /\ pc' = "read")]_vars
    /\ [][nReads' # nReads => (pc = "read" /\ disk.exists)]_vars

\* a finished run: the file written once and read once, the table in memory
\* imputed and scaled, the file still holding its null values
C9_Witness ==
    /\ pc = "done"
    /\ nWrites = 1
    /\ nReads = 1
    /\ disk.exists
    /\ imputer.fitted
    /\ scaler.fitted
    /\ \E i \in DOMAIN DiskTable : IsNaN(DiskTable[i]["TotalCharges"])

\* the fold scores of the search as a function of the search's inputs alone
ScoresOf(estimator, ncand, cv, rs) ==
    [t \in 1..(ncand * cv) |->
        FitAndScore(estimator, CandOf(t, cv), FoldOf(t, cv), X_train_smote, y_train_smote, rs)]

MeanOf(scores, c, cv) ==
    RatDiv(RatSum([f \in 1..cv |-> scores[(c - 1) * cv + f]]), IntVal(cv))

TreeScores == ScoresOf("DecisionTreeClassifier", TreeGridSize, TreeCV, seed)

\* the first candidate of the largest mean accuracy over the folds
SelectedTree ==
    CHOOSE c \in 1..TreeGridSize :
        /\ \A d \in 1..TreeGridSize :
               ~RatLess(MeanOf(TreeScores, c, TreeCV), MeanOf(TreeScores, d, TreeCV))
        /\ \A d \in 1..(c - 1) :
               RatLess(MeanOf(TreeScores, d, TreeCV), MeanOf(TreeScores, c, TreeCV))

\* the tree search has ended and the naive Bayes cells have not yet run
TreeSearchDone ==
    /\ pc \in {"eval_best_tree", "train_nb", "halted"}
    /\ best_tree # Unfitted
    /\ nb = Unfitted

\* C10: with the seed and the grid fixed, the tree configuration the search
\* selects is the candidate of maximum mean cross-validation accuracy, and it,
\* its cross-validation score, the refitted best_tree and the accuracy printed
\* for it are functions of the seed alone: the same whatever order the workers
\* finished in.
C10_Reproducible ==
    TreeSearchDone =>
        \A sel \in {SelectedTree} :
            /\ grid_search.stage = "done"
            /\ grid_search.estimator = "DecisionTreeClassifier"
            /\ grid_search.best_index_ = sel
            /\ grid_search.best_score_ = MeanOf(TreeScores, sel, TreeCV)
            /\ best_tree.params = TreeCandidate(sel)
            /\ best_tree = Fit("DecisionTreeClassifier", TreeCandidate(sel),
                               X_train_smote, y_train_smote, seed)
            /\ \A k \in DOMAIN printed :
                   printed[k].label = "Best Decision Tree" =>
                       printed[k].accuracy =
                           accuracy_score(y_test_smote, PredictAll(best_tree, X_test_smote))

\* a tree search in which a later task has returned before an earlier one
OutOfOrder ==
    /\ pc = "gs_tree_fit"
    /\ \E t \in DOMAIN grid_search.results :
           /\ ~IsNaN(grid_search.results[t])
           /\ \E u \in 1..(t - 1) : IsNaN(grid_search.results[u])

\* the search has selected the second candidate, the one whose folds are the
\* last to be dispatched, and its accuracy has been printed
C10_Witness ==
    /\ pc = "train_nb"
    /\ grid_search.stage = "done"
    /\ grid_search.best_index_ = 2
    /\ TreeScores[1] # TreeScores[2]
    /\ \E k \in DOMAIN printed : printed[k].label = "Best Decision Tree"
\* how often v occurs in a sequence
Occurrences(seq, v) == Cardinality({k \in DOMAIN seq : seq[k] = v})

\* a row with its label
Labelled(pts, labels) == [k \in DOMAIN pts |-> <<pts[k], labels[k]>>]

\* the values of a column of the file that are not null
PresentOnDisk(c) == SelectSeq(Column(DiskTable, c), NotNaN)

\* the imputation mean, the label tables and the scaler's statistics are
\* those of all rows of the table that was read
FittedOnAllRows ==
    /\ imputer.fitted /\ imputer.n = n_records
    /\ RatMul(imputer.statistics_, IntVal(Len(PresentOnDisk("TotalCharges"))))
           = RatSum(PresentOnDisk("TotalCharges"))
    /\ DOMAIN label_encoders = Range(CategoricalCols)
    /\ \A c \in Range(CategoricalCols) :
           Range(label_encoders[c]) = {DiskTable[i][c] : i \in DOMAIN DiskTable}
    /\ scaler.fitted /\ scaler.n_samples_seen_ = n_records
    /\ \A c \in {"Age", "MonthlyCharges", "Tenure"} :
           RatMul(scaler.mean_[c], IntVal(n_records)) = RatSum(Column(DiskTable, c))
    /\ scaler.mean_["TotalCharges"] = imputer.statistics_

\* the oversampled set holds every row of X with its label, then synthetic
\* rows only, and the second split deals that set out into its two parts
OversampledThenSplit ==
    /\ Len(X) = n_records
    /\ Len(X_resampled) >= Len(X) /\ Len(y_resampled) = Len(X_resampled)
    /\ SubSeq(X_resampled, 1, Len(X)) = Points(X)
    /\ SubSeq(y_resampled, 1, Len(y)) = y
    /\ \A k \in (Len(X) + 1)..Len(X_resampled) :
           /\ X_resampled[k].synthetic
           /\ X_resampled[k].base \in Range(X)
           /\ X_resampled[k].neighbour \in Range(X)
    /\ 2 * Occurrences(y_resampled, 1) = Len(y_resampled)
    /\ Len(X_train_smote) + Len(X_test_smote) = Len(X_resampled)
    /\ 10 * Len(X_test_smote) >= 2 * Len(X_resampled)
    /\ \A pl \in Range(Labelled(X_resampled, y_resampled)) :
           Occurrences(Labelled(X_train_smote, y_train_smote), pl)
               + Occurrences(Labelled(X_test_smote, y_test_smote), pl)
               = Occurrences(Labelled(X_resampled, y_resampled), pl)

\* C11: every preprocessing statistic is fitted on all rows before the split
\* it feeds: when the first split runs, and ever after, the imputation mean,
\* the label tables and the scaler's statistics are those of all n_records
\* rows, and none is fitted again; the oversampling runs on all of X and y
\* before the second split, whose two parts are dealt from the one oversampled
\* set, synthetic rows included.
C11_FitBeforeSplit ==
    /\ [](pc = "split" => FittedOnAllRows /\ train_index = <<>> /\ X_train = <<>>)
    /\ [](train_index # <<>> /\ pc \notin {"full_split", "full_done"} => FittedOnAllRows)
    /\ [][train_index # <<>> => UNCHANGED <<imputer, label_encoders, scaler>>]_vars
    /\ [](pc = "smote" => X_resampled = <<>> /\ X_train_smote = <<>> /\ X_test_smote = <<>>)
    /\ [](X_train_smote # <<>> => OversampledThenSplit)
    /\ [][X_train_smote # <<>> =>
              UNCHANGED <<X_resampled, y_resampled, X_train_smote, X_test_smote,
                          y_train_smote, y_test_smote>>]_vars

\* both splits have run: the statistics are fitted, and the tuned models' test
\* part holds a synthetic row whose base row lies in the first split's test part
C11_Witness ==
    /\ pc = "gs_tree"
    /\ imputer.fitted /\ scaler.fitted
    /\ \E k \in DOMAIN X_test_smote : X_test_smote[k].synthetic
    /\ \E k \in DOMAIN X_train_smote : X_train_smote[k].synthetic
    /\ \E k \in DOMAIN X_train_smote :
           /\ X_train_smote[k].synthetic
           /\ \E j \in DOMAIN test_index : X_train_smote[k].base = X[test_index[j]]
Ratio == "monthly_to_tenure_ratio"

WithoutRatio(t) == [i \in DOMAIN t |-> DropColumns(t[i], {Ratio})]

HasRatio(row) == Ratio \in DOMAIN row

\* the rows of X the first split dealt to a part
PartOfX(idx) == [k \in DOMAIN idx |-> X[idx[k]]]

\* C12: the feature augmenter changes only the part it is applied to. Its
\* step leaves X, the labels and the split's indices as they were, and gives
\* each part one new column computed from that part's own row, every other
\* column keeping its value; so each part is, from then on, its rows of X plus
\* the ratio. X never has the ratio column, nor has any row given to the
\* oversampling or to either grid search, nor the tuned models' feature set,
\* while the baseline models are fitted on the feature set with the ratio.
C12_AugmenterFrame ==
    /\ [][pc = "augment" =>
              /\ X' = X /\ y' = y /\ y_train' = y_train /\ y_test' = y_test
              /\ train_index' = train_index /\ test_index' = test_index
              /\ WithoutRatio(X_train') = X_train
              /\ WithoutRatio(X_test') = X_test
              /\ \A i \in DOMAIN X_train : ~HasRatio(X_train[i]) /\ HasRatio(X_train'[i])
              /\ \A i \in DOMAIN X_test : ~HasRatio(X_test[i]) /\ HasRatio(X_test'[i])]_vars
    /\ [](\A i \in DOMAIN X : ~HasRatio(X[i]))
    /\ [](pc \notin PreAugment /\ train_index # <<>> =>
              /\ WithoutRatio(X_train) = PartOfX(train_index)
              /\ WithoutRatio(X_test) = PartOfX(test_index))
    /\ [](\A k \in DOMAIN X_resampled :
              ~HasRatio(X_resampled[k].base) /\ ~HasRatio(X_resampled[k].neighbour))
    /\ [](\A k \in DOMAIN X_train_smote : ~HasRatio(X_train_smote[k].base))
    /\ [](\A k \in DOMAIN X_test_smote : ~HasRatio(X_test_smote[k].base))
    /\ [](best_tree # Unfitted => Ratio \notin best_tree.feature_names_in_)
    /\ [](best_nb # Unfitted => Ratio \notin best_nb.feature_names_in_)
    /\ [](tree # Unfitted => Ratio \in tree.feature_names_in_)
    /\ [](nb # Unfitted => Ratio \in nb.feature_names_in_)

\* a finished run: the baseline and the tuned models all fitted, the parts
\* holding the ratio and X not
C12_Witness ==
    /\ pc = "done"
    /\ tree # Unfitted /\ nb # Unfitted /\ best_tree # Unfitted /\ best_nb # Unfitted
    /\ \A i \in DOMAIN X_train : HasRatio(X_train[i])
    /\ \A i \in DOMAIN X_test : HasRatio(X_test[i])
    /\ X # <<>> /\ \A i \in DOMAIN X : ~HasRatio(X[i])
    /\ \E i \in DOMAIN X_train : X_train[i][Ratio] # SurdZero
    /\ DOMAIN X_train[1] # DOMAIN X_train_smote[1].base

====
